---------------------------- MODULE Spec2Model ----------------------------
(***************************************************************************)
(* Perfect-maze generators (recursive backtracker, randomized Prim,        *)
(* Wilson) of backup/maze copy.py and the Dijkstra solvers of              *)
(* solve_maze.py and backup/solve_maze copy.py.                            *)
(*                                                                         *)
(* A cell is the pair <<x, y>>; a grid is a function from the cells of a   *)
(* width x height rectangle to passage masks 0..15 (grid[y][x] of the      *)
(* code is grid[<<x, y>>] here).  A two-dimensional boolean array          *)
(* (visited, in_maze) is the set of the cells that hold True.              *)
(***************************************************************************)
EXTENDS Integers, Sequences, FiniteSets, TLC

VARIABLES
    \* ---- one call of a generator or of a solver ------------------------
    pc,               \* position of the call: idle, dfs, prim, wil_pick,
                      \* wil_walk, wil_carve, solve, done, error
    algo,             \* the function called: "none", "dfs", "prim", "wilson",
                      \* "dijkstra_solve", "solve_maze_dijkstra",
                      \* "dijkstra_wavefront_gif"
    width, height,    \* generators: the arguments; solvers: w and h
    grid,             \* the grid being carved (empty domain: not allocated),
                      \* or the grid being solved
    visited,          \* generate_maze_dfs, dijkstra_solve,
                      \* dijkstra_wavefront_gif: visited
    stack,            \* generate_maze_dfs: stack
    in_maze,          \* generate_maze_prim / generate_maze_wilson: in_maze
    frontier,         \* generate_maze_prim: frontier, a list of edges
    path_order,       \* generate_maze_wilson: path_order
    path_next,        \* generate_maze_wilson: path_next
    visited_in_walk,  \* generate_maze_wilson: visited_in_walk
    cxy,              \* generate_maze_wilson: (cx, cy)
    ci,               \* generate_maze_wilson: i of the carve loop
    raised,           \* the exception that ended the call ("" for none)
    \* ---- the solvers ---------------------------------------------------
    start, end,       \* the arguments start and end
    dist,             \* dist
    prev,             \* prev
    pq,               \* pq, the heap, as the list of its entries
    all_distances,    \* dijkstra_wavefront_gif: all_distances
    path,             \* the value returned
    reads,            \* the indices (x, y) at which grid[y][x] was read
    \* ---- the shared random source -------------------------------------
    rng,              \* state of the module-level random generator
    tape,             \* the values the seeded generator has produced so far
    \* ---- history of the call (observation only) ------------------------
    allocated,        \* TRUE once the call has built its grid
    drawn,            \* TRUE once the call has drawn from the random source
    first,            \* the cell the call started from
    pushes,           \* dfs: how often each cell was pushed on the stack
    accepts,          \* prim: how many accepted edges absorbed each cell
    popped,           \* prim: the edge popped by the last iteration
    \* ---- two calls with the same arguments -----------------------------
    call,             \* number of generator calls started
    args,             \* arguments of the first call
    grid1,            \* grid returned by the first call
    others            \* TRUE once other code used the random source since
                      \* the last return

genVars == <<pc, algo, width, height, grid, visited, stack, in_maze, frontier,
             path_order, path_next, visited_in_walk, cxy, ci, raised>>
solveVars == <<start, end, dist, prev, pq, all_distances, path, reads>>
rngVars == <<rng, tape>>
histVars == <<allocated, drawn, first, pushes, accepts, popped>>
callVars == <<call, args, grid1, others>>
vars == <<genVars, solveVars, rngVars, histVars, callVars>>

-----------------------------------------------------------------------------
(* Bounds of the model *)

\* Largest number of cells of a generated grid: every width x height
\* rectangle with at most MaxCells cells is generated.
MaxCells == 6

-----------------------------------------------------------------------------
(* Direction system: class Dir, DX, DY, OPPOSITE *)

N == 1
S == 2
W == 4
E == 8

Dirs == {N, S, W, E}

DX == [d \in Dirs |-> CASE d = E -> 1 [] d = W -> -1 [] OTHER -> 0]
DY == [d \in Dirs |-> CASE d = N -> -1 [] d = S -> 1 [] OTHER -> 0]
OPPOSITE == [d \in Dirs |-> CASE d = E -> W [] d = W -> E [] d = N -> S [] OTHER -> N]

\* cell & int(d)
HasBit(m, d) == (m \div d) % 2 = 1

\* cell | int(d)
OrBit(m, d) == IF HasBit(m, d) THEN m ELSE m + d

Cells(w, h) == (0 .. w - 1) \X (0 .. h - 1)

Step(c, d) == <<c[1] + DX[d], c[2] + DY[d]>>

\* _neighbors(x, y, w, h): the in-bounds neighbours as <<nx, ny, d>>, in the
\* order the generator yields them (N, S, W, E)
SelectSeq4(a, b, c, d) ==
    (IF a = <<>> THEN <<>> ELSE <<a>>) \o (IF b = <<>> THEN <<>> ELSE <<b>>)
    \o (IF c = <<>> THEN <<>> ELSE <<c>>) \o (IF d = <<>> THEN <<>> ELSE <<d>>)

_neighbors(x, y, w, h) ==
    SelectSeq4(IF y > 0     THEN <<x, y - 1, N>> ELSE <<>>,
               IF y < h - 1 THEN <<x, y + 1, S>> ELSE <<>>,
               IF x > 0     THEN <<x - 1, y, W>> ELSE <<>>,
               IF x < w - 1 THEN <<x + 1, y, E>> ELSE <<>>)

\* Carve with the second assignment forgotten: only the near side is opened.
Carve_OneSided(g, c, n, d) == [g EXCEPT ![c] = OrBit(@, d)]

\* grid[y][x] |= int(d); grid[ny][nx] |= int(OPPOSITE[d])
Carve(g, c, n, d) ==
    [g EXCEPT ![c] = OrBit(@, d), ![n] = OrBit(g[n], OPPOSITE[d])]

\* [[0 for _ in range(width)] for _ in range(height)]
EmptyGrid(w, h) == [c \in Cells(w, h) |-> 0]

NoGrid == [c \in {} |-> 0]

\* {} of Python: a dictionary with no key
EmptyDict == [c \in {} |-> 0]

\* None, where a cell is expected
NoCell == <<>>

\* The value a solver returns: None, or a list of cells.
NoPath == [none |-> TRUE, cells |-> <<>>]
PathOf(cells) == [none |-> FALSE, cells |-> cells]

\* list.pop(i), 1-based here
RemoveAt(s, i) == [k \in 1 .. Len(s) - 1 |-> IF k < i THEN s[k] ELSE s[k + 1]]


-----------------------------------------------------------------------------
(* The module-level random source (import random).                         *)
(*                                                                         *)
(* random.seed(s) puts the generator in a state that depends on s alone,   *)
(* and every later draw is a function of that state and of the draws made  *)
(* since.  Which function is left open: the first time a draw is made      *)
(* after a given seed and a given history of draw sizes its value is       *)
(* chosen freely and written on the tape; the same seed and history give   *)
(* the same value again.  A source that was never seeded, or that other    *)
(* code has used, is in an unknown state (Unseeded): its draws are free.   *)

\* seed: Optional[int] = None.  Seeds proper are 0, 1, ...
None == -1

MaxSeed == 1
MaxDraws == 7

Seeds == 0 .. MaxSeed

Unseeded == [seed |-> None, hist |-> <<>>]

\* random.seed(seed)
Reseed(seed) == [seed |-> seed, hist |-> <<>>]

\* The seed argument ignored: the source is left in the state it is in.
SeedIgnored(r, seed) == r

\* if seed is not None: random.seed(seed)
SeedIfGiven(r, seed) == IF seed # None THEN Reseed(seed) ELSE r

DrawKey(r, n) == <<r.seed, Append(r.hist, n)>>

\* i is a value random.randrange(n) / random.choice of n items can return
\* in state r, given what the tape already fixes
CanDraw(r, t, n, i) ==
    /\ i \in 0 .. n - 1
    /\ r.seed # None =>
          /\ Len(r.hist) < MaxDraws
          /\ DrawKey(r, n) \in DOMAIN t => t[DrawKey(r, n)] = i

RngAfter(r, n) == IF r.seed = None THEN r ELSE [r EXCEPT !.hist = Append(@, n)]

TapeAfter(r, t, n, i) == IF r.seed = None THEN t ELSE t @@ (DrawKey(r, n) :> i)

\* One draw of the running call from the shared source.
Draw(n, i) ==
    /\ CanDraw(rng, tape, n, i)
    /\ rng' = RngAfter(rng, n)
    /\ tape' = TapeAfter(rng, tape, n, i)

-----------------------------------------------------------------------------
(* The prologue the three generators share *)

\* The prologue with the test moved below the allocation of the grid.
AllocateThenValidate(w, h) ==
    [err |-> w <= 0 \/ h <= 0, allocated |-> TRUE,
     grid |-> IF w <= 0 \/ h <= 0 THEN NoGrid ELSE EmptyGrid(w, h)]

\* if width <= 0 or height <= 0: raise ValueError(...), and only then the
\* grid is built
ValidateThenAllocate(w, h) ==
    IF w <= 0 \/ h <= 0
    THEN [err |-> TRUE, allocated |-> FALSE, grid |-> NoGrid]
    ELSE [err |-> FALSE, allocated |-> TRUE, grid |-> EmptyGrid(w, h)]

\* The call fails with ValueError and returns no grid.
RaiseValueError(a, w, h, p) ==
    /\ UNCHANGED solveVars
    /\ pc' = "error"
    /\ raised' = "ValueError"
    /\ algo' = a /\ width' = w /\ height' = h
    /\ grid' = p.grid
    /\ allocated' = p.allocated
    /\ call' = call + 1
    /\ args' = IF call = 0 THEN <<a, w, h, None>> ELSE args
    /\ UNCHANGED <<visited, stack, in_maze, frontier, path_order, path_next,
                   visited_in_walk, cxy, ci, rngVars, drawn, first, pushes,
                   accepts, popped, grid1, others>>

\* x = random.randrange(width); y = random.randrange(height), after the
\* optional reseeding: the two draws and the state of the source after them
StartCell(w, h, seed, x, y) ==
    LET r0 == SeedIfGiven(rng, seed)
        r1 == RngAfter(r0, w)
        t1 == TapeAfter(r0, tape, w, x)
    IN  /\ CanDraw(r0, tape, w, x)
        /\ CanDraw(r1, t1, h, y)
        /\ rng' = RngAfter(r1, h)
        /\ tape' = TapeAfter(r1, t1, h, y)

\* What every successful start records about the call.
Begin(a, w, h, seed, p, c) ==
    /\ UNCHANGED solveVars
    /\ algo' = a /\ width' = w /\ height' = h
    /\ grid' = p.grid
    /\ allocated' = p.allocated
    /\ drawn' = TRUE
    /\ first' = c
    /\ popped' = <<>>
    /\ raised' = ""
    /\ call' = call + 1
    /\ args' = IF call = 0 THEN <<a, w, h, seed>> ELSE args
    /\ UNCHANGED <<grid1, others>>

-----------------------------------------------------------------------------
(* generate_maze_dfs *)

\* lines 34-46: validation, seeding, allocation, the random start cell
DfsStart(w, h, seed) ==
    /\ pc = "idle"
    /\ LET p == ValidateThenAllocate(w, h)
       IN  IF p.err
           THEN RaiseValueError("dfs", w, h, p)
           ELSE \E x \in 0 .. w - 1, y \in 0 .. h - 1 :
                  /\ StartCell(w, h, seed, x, y)
                  /\ Begin("dfs", w, h, seed, p, <<x, y>>)
                  /\ visited' = {<<x, y>>}
                  /\ stack' = << <<x, y>> >>
                  /\ pushes' = [c \in Cells(w, h) |-> IF c = <<x, y>> THEN 1 ELSE 0]
                  /\ pc' = "dfs"
                  /\ UNCHANGED <<in_maze, frontier, path_order, path_next,
                                 visited_in_walk, cxy, ci, accepts>>

\* options = [(nx, ny, d) for ... in _neighbors(x, y, ...) if not visited[ny][nx]]
DfsOptions(c, vis, w, h) ==
    LET Unvisited(t) == <<t[1], t[2]>> \notin vis
    IN  SelectSeq(_neighbors(c[1], c[2], w, h), Unvisited)

\* The loop left one element too early ("while len(stack) > 1").
DfsAfter_Early(stk) == IF Len(stk) <= 1 THEN "done" ELSE "dfs"

\* What the loop "while stack:" does after an iteration: go on, or return grid
DfsAfter(stk) == IF stk = <<>> THEN "done" ELSE "dfs"

\* lines 48-61: one iteration of "while stack:"
DfsStep ==
    /\ UNCHANGED solveVars
    /\ pc = "dfs"
    /\ stack # <<>>
    /\ LET c == stack[Len(stack)]
           options == DfsOptions(c, visited, width, height)
       IN  IF options # <<>>
           THEN \E k \in 0 .. Len(options) - 1 :
                  LET n == <<options[k + 1][1], options[k + 1][2]>>
                      d == options[k + 1][3]
                  IN  /\ Draw(Len(options), k)
                      /\ IF d \notin DOMAIN OPPOSITE
                         THEN /\ pc' = "error"
                              /\ raised' = "RuntimeError"
                              /\ UNCHANGED <<grid, visited, stack, pushes>>
                         ELSE /\ grid' = Carve(grid, c, n, d)
                              /\ raised' = raised
                              /\ visited' = visited \cup {n}
                              /\ stack' = Append(stack, n)
                              /\ pushes' = [pushes EXCEPT ![n] = @ + 1]
                              /\ pc' = DfsAfter(stack')
           ELSE /\ stack' = SubSeq(stack, 1, Len(stack) - 1)
                /\ pc' = DfsAfter(stack')
                /\ UNCHANGED <<grid, visited, pushes, rngVars, raised>>
    /\ UNCHANGED <<algo, width, height, in_maze, frontier, path_order, path_next,
                   visited_in_walk, cxy, ci, allocated, drawn, first, accepts,
                   popped, callVars>>

-----------------------------------------------------------------------------
(* generate_maze_prim *)

\* for nx, ny, d in _neighbors(x, y, ...): [if not in_maze[ny][nx]:]
\*     frontier.append((x, y, nx, ny, d))
EdgesFrom(c, inm, w, h) ==
    LET nb == _neighbors(c[1], c[2], w, h)
        Outside(t) == <<t[1], t[2]>> \notin inm
        out == SelectSeq(nb, Outside)
    IN  [k \in 1 .. Len(out) |-> <<c[1], c[2], out[k][1], out[k][2], out[k][3]>>]

\* What the loop "while frontier:" does after an iteration
PrimAfter(fr) == IF fr = <<>> THEN "done" ELSE "prim"

\* lines 70-85: validation, seeding, allocation, the start cell and its edges
PrimStart(w, h, seed) ==
    /\ pc = "idle"
    /\ LET p == ValidateThenAllocate(w, h)
       IN  IF p.err
           THEN RaiseValueError("prim", w, h, p)
           ELSE \E x \in 0 .. w - 1, y \in 0 .. h - 1 :
                  /\ StartCell(w, h, seed, x, y)
                  /\ Begin("prim", w, h, seed, p, <<x, y>>)
                  /\ in_maze' = {<<x, y>>}
                  /\ frontier' = EdgesFrom(<<x, y>>, {}, w, h)
                  /\ accepts' = [c \in Cells(w, h) |-> 0]
                  /\ pc' = PrimAfter(frontier')
                  /\ UNCHANGED <<visited, stack, path_order, path_next,
                                 visited_in_walk, cxy, ci, pushes>>

\* The test of the popped edge dropped: every popped edge is carved.
Accepts_Always(e, inm) == TRUE

\* if not in_maze[ny][nx]: the popped edge is accepted
Accepts(e, inm) == <<e[3], e[4]>> \notin inm

\* lines 87-98: one iteration of "while frontier:"
PrimStep ==
    /\ UNCHANGED solveVars
    /\ pc = "prim"
    /\ frontier # <<>>
    /\ \E i \in 0 .. Len(frontier) - 1 :
         LET e == frontier[i + 1]
             rest == RemoveAt(frontier, i + 1)
             c == <<e[1], e[2]>>
             n == <<e[3], e[4]>>
             d == e[5]
         IN  /\ Draw(Len(frontier), i)
             /\ IF Accepts(e, in_maze)
                THEN IF d \notin DOMAIN OPPOSITE
                     THEN /\ pc' = "error"
                          /\ raised' = "RuntimeError"
                          /\ frontier' = rest
                          /\ popped' = <<e, FALSE>>
                          /\ UNCHANGED <<grid, in_maze, accepts>>
                     ELSE /\ in_maze' = in_maze \cup {n}
                          /\ grid' = Carve(grid, c, n, d)
                          /\ frontier' = rest \o EdgesFrom(n, in_maze', width, height)
                          /\ accepts' = [accepts EXCEPT ![n] = @ + 1]
                          /\ popped' = <<e, TRUE>>
                          /\ raised' = raised
                          /\ pc' = PrimAfter(frontier')
                ELSE /\ frontier' = rest
                     /\ popped' = <<e, FALSE>>
                     /\ pc' = PrimAfter(frontier')
                     /\ UNCHANGED <<grid, in_maze, accepts, raised>>
    /\ UNCHANGED <<algo, width, height, visited, stack, path_order, path_next,
                   visited_in_walk, cxy, ci, allocated, drawn, first, pushes,
                   callVars>>

-----------------------------------------------------------------------------
(* generate_maze_wilson *)

\* lines 107-119: validation, seeding, allocation, the seed cell of the tree
WilsonStart(w, h, seed) ==
    /\ pc = "idle"
    /\ LET p == ValidateThenAllocate(w, h)
       IN  IF p.err
           THEN RaiseValueError("wilson", w, h, p)
           ELSE \E x \in 0 .. w - 1, y \in 0 .. h - 1 :
                  /\ StartCell(w, h, seed, x, y)
                  /\ Begin("wilson", w, h, seed, p, <<x, y>>)
                  /\ in_maze' = {<<x, y>>}
                  /\ pc' = "wil_pick"
                  /\ UNCHANGED <<visited, stack, frontier, path_order, path_next,
                                 visited_in_walk, cxy, ci, pushes, accepts>>

\* remaining_cells(): the cells not in the maze, rows first (yy outer, xx inner)
remaining_cells(inm, w, h) ==
    LET all == [k \in 1 .. w * h |-> <<(k - 1) % w, (k - 1) \div w>>]
        Remaining(c) == c \notin inm
    IN  SelectSeq(all, Remaining)

\* lines 127-140: the pool, "if not pool: break", the start of a walk
WilsonPick ==
    /\ UNCHANGED solveVars
    /\ pc = "wil_pick"
    /\ LET pool == remaining_cells(in_maze, width, height)
       IN  IF pool = <<>>
           THEN /\ pc' = "done"
                /\ UNCHANGED <<path_order, path_next, visited_in_walk, cxy, rngVars>>
           ELSE \E k \in 0 .. Len(pool) - 1 :
                  /\ Draw(Len(pool), k)
                  /\ path_order' = <<pool[k + 1]>>
                  /\ path_next' = EmptyDict
                  /\ cxy' = pool[k + 1]
                  /\ visited_in_walk' = (pool[k + 1] :> 0)
                  /\ pc' = "wil_walk"
    /\ UNCHANGED <<algo, width, height, grid, visited, stack, in_maze, frontier,
                   ci, raised, histVars, callVars>>

\* lines 146-150: loop erasure, the walk came back to path_order[idx]
\* (idx is the 0-based index visited_in_walk holds)
ErasedOrder(po, idx) == SubSeq(po, 1, idx + 1)

\* The loop erasure with the index map left as it was.
ErasedIndex_Kept(viw, po, idx) == viw

ErasedIndex(viw, po, idx) ==
    LET gone == {po[k] : k \in idx + 2 .. Len(po)}
    IN  [c \in DOMAIN viw \ gone |-> viw[c]]

\* What follows the walk's step onto n: the next step, or the carve loop
\* "for i in range(len(path_order) - 1)", or (empty range) the next pool
WalkAfter(n, inm, po) ==
    IF n \notin inm THEN "wil_walk"
    ELSE IF Len(po) - 1 > 0 THEN "wil_carve" ELSE "wil_pick"

\* lines 142-155: one iteration of "while not in_maze[cy][cx]:"
WilsonStep ==
    /\ UNCHANGED solveVars
    /\ pc = "wil_walk"
    /\ cxy \notin in_maze
    /\ LET nb == _neighbors(cxy[1], cxy[2], width, height)
       IN  \E k \in 0 .. Len(nb) - 1 :
             LET n == <<nb[k + 1][1], nb[k + 1][2]>>
                 d == nb[k + 1][3]
             IN  /\ Draw(Len(nb), k)
                 /\ IF n \in DOMAIN visited_in_walk
                    THEN /\ visited_in_walk' =
                               ErasedIndex(visited_in_walk, path_order, visited_in_walk[n])
                         /\ path_order' = ErasedOrder(path_order, visited_in_walk[n])
                    ELSE /\ path_order' = Append(path_order, n)
                         /\ visited_in_walk' = visited_in_walk @@ (n :> Len(path_order') - 1)
                 /\ path_next' = (cxy :> <<n, d>>) @@ path_next
                 /\ cxy' = n
                 /\ ci' = 0
                 /\ pc' = WalkAfter(n, in_maze, path_order')
    /\ UNCHANGED <<algo, width, height, grid, visited, stack, in_maze, frontier,
                   raised, histVars, callVars>>

\* The carve loop with the marking of the carved cells forgotten.
MarkCarved_Forgotten(inm, c0, c1) == inm

\* in_maze[y0][x0] = True; in_maze[y1][x1] = True
MarkCarved(inm, c0, c1) == inm \cup {c0, c1}

\* lines 157-165: one iteration of the carve loop
WilsonCarve ==
    /\ UNCHANGED solveVars
    /\ pc = "wil_carve"
    /\ ci < Len(path_order) - 1
    /\ LET c0 == path_order[ci + 1]
           c1 == path_order[ci + 2]
           d == path_next[c0][2]
       IN  /\ grid' = Carve(grid, c0, c1, d)
           /\ in_maze' = MarkCarved(in_maze, c0, c1)
    /\ ci' = ci + 1
    /\ pc' = IF ci' < Len(path_order) - 1 THEN "wil_carve" ELSE "wil_pick"
    /\ UNCHANGED <<algo, width, height, visited, stack, frontier, path_order,
                   path_next, visited_in_walk, cxy, raised, rngVars, histVars,
                   callVars>>

-----------------------------------------------------------------------------
(* One generator call, arbitrary arguments, the random source unseeded:    *)
(* every sequence of random choices is a behaviour.                        *)

\* The (width, height) arguments: every rectangle of at most MaxCells cells,
\* and the ones with a dimension of 0 or -1.
Dims ==
    {wh \in (-1 .. MaxCells) \X (-1 .. MaxCells) :
        wh[1] <= 0 \/ wh[2] <= 0 \/ wh[1] * wh[2] <= MaxCells}

Init ==
    /\ pc = "idle" /\ algo = "none" /\ width = 0 /\ height = 0
    /\ grid = NoGrid
    /\ visited = {} /\ stack = <<>>
    /\ in_maze = {} /\ frontier = <<>>
    /\ path_order = <<>> /\ path_next = EmptyDict /\ visited_in_walk = EmptyDict
    /\ cxy = <<>> /\ ci = 0 /\ raised = ""
    /\ rng = Unseeded /\ tape = EmptyDict
    /\ allocated = FALSE /\ drawn = FALSE /\ first = <<>>
    /\ pushes = EmptyDict /\ accepts = EmptyDict /\ popped = <<>>
    /\ call = 0 /\ args = <<>> /\ grid1 = NoGrid /\ others = FALSE
    /\ start = NoCell /\ end = NoCell
    /\ dist = EmptyDict /\ prev = EmptyDict /\ pq = <<>>
    /\ all_distances = EmptyDict
    /\ path = NoPath /\ reads = {}

Next ==
    \/ \E wh \in Dims : DfsStart(wh[1], wh[2], None)
    \/ \E wh \in Dims : PrimStart(wh[1], wh[2], None)
    \/ \E wh \in Dims : WilsonStart(wh[1], wh[2], None)
    \/ DfsStep
    \/ PrimStep
    \/ WilsonPick
    \/ WilsonStep
    \/ WilsonCarve

Spec == Init /\ [][Next]_vars

-----------------------------------------------------------------------------
(* The passage graph of a grid *)

InGrid(g, c) == c \in DOMAIN g

\* An edge joins c and its neighbour in direction d iff the passage bit is
\* set in both cells.
Linked(g, c, d) ==
    /\ HasBit(g[c], d)
    /\ InGrid(g, Step(c, d))
    /\ HasBit(g[Step(c, d)], OPPOSITE[d])

\* Each edge once: from its northern or western end.
EdgeSet(g) == {e \in (DOMAIN g) \X {S, E} : Linked(g, e[1], e[2])}

Adjacent(g, c) == {Step(c, d) : d \in {d \in Dirs : Linked(g, c, d)}}

RECURSIVE ReachFrom(_, _)
ReachFrom(g, set) ==
    LET more == set \cup UNION {Adjacent(g, c) : c \in set}
    IN  IF more = set THEN set ELSE ReachFrom(g, more)

Connected(g) == \A c \in DOMAIN g : ReachFrom(g, {c}) = DOMAIN g

IsSpanningTree(g, w, h) ==
    /\ DOMAIN g = Cells(w, h)
    /\ Connected(g)
    /\ Cardinality(EdgeSet(g)) = w * h - 1

Symmetric(g) ==
    \A c \in DOMAIN g :
      /\ g[c] \in 0 .. 15
      /\ \A d \in Dirs :
           HasBit(g[c], d) => InGrid(g, Step(c, d)) /\ HasBit(g[Step(c, d)], OPPOSITE[d])

-----------------------------------------------------------------------------
(* Claims about the generators, checked under Spec *)

\* C1: whatever the generator (dfs, prim, wilson), whatever width, height >= 1
\* and whatever the random choices, the grid returned is a spanning tree of
\* the width x height grid: its passage graph is connected and has exactly
\* width * height - 1 edges.
C1_PerfectMaze ==
    pc = "done" =>
        /\ width >= 1 /\ height >= 1
        /\ IsSpanningTree(grid, width, height)

\* A Wilson call has returned a 2 x 3 maze.
C1_Witness ==
    pc = "done" /\ algo = "wilson" /\ width = 2 /\ height = 3

\* C2: in every state between carve steps, of every generator, every passage
\* bit of every cell is matched by the opposite bit of the neighbour it
\* points to, which lies inside the grid; every mask is in 0..15.
C2_PassageSymmetry == Symmetric(grid)

\* A Wilson call is in the middle of its carve loop: one step of the
\* loop-erased path is carved, another is still to carve.
C2_Witness ==
    /\ pc = "wil_carve" /\ ci = 1
    /\ \E c \in DOMAIN grid : grid[c] # 0

\* C6: a generator called with width <= 0 or height <= 0 fails with
\* ValueError, the invalid-dimension error, before a grid is allocated and
\* before a random choice is made, and returns no grid.
C6_InvalidDimension ==
    (algo # "none" /\ (width <= 0 \/ height <= 0)) =>
        /\ pc = "error"
        /\ raised = "ValueError"
        /\ ~allocated
        /\ ~drawn
        /\ grid = NoGrid

\* generate_maze_prim(0, 2) has failed.
C6_Witness ==
    algo = "prim" /\ width = 0 /\ height = 2 /\ pc = "error"

\* The frontier edges start in the maze and lead to the neighbour in their
\* direction.
FrontierWellFormed ==
    \A k \in 1 .. Len(frontier) :
      LET e == frontier[k]
      IN  /\ <<e[1], e[2]>> \in in_maze
          /\ e[5] \in Dirs
          /\ <<e[3], e[4]>> = Step(<<e[1], e[2]>>, e[5])

\* One iteration of the loop of generate_maze_prim, seen from outside: the
\* edge popped' [1] was in the frontier; it is carved exactly when its outside
\* endpoint was not in the maze when it was popped, and a discarded edge
\* changes neither grid nor in_maze.
PrimPopRule ==
    (algo = "prim" /\ pc = "prim" /\ pc' # "error") =>
        LET e == popped'[1]
            c == <<e[1], e[2]>>
            n == <<e[3], e[4]>>
        IN  /\ \E k \in 1 .. Len(frontier) : frontier[k] = e
            /\ n \in in_maze => grid' = grid /\ in_maze' = in_maze
            /\ n \notin in_maze =>
                  /\ grid' = Carve(grid, c, n, e[5])
                  /\ grid' # grid
                  /\ in_maze' = in_maze \cup {n}

\* No cell is absorbed twice, the cells absorbed are the cells in the maze
\* but the first, and at the return every cell but the first was absorbed
\* by exactly one accepted edge.
PrimAbsorbedOnce ==
    algo = "prim" /\ pc \in {"prim", "done"} =>
        /\ \A c \in DOMAIN accepts :
             accepts[c] = IF c \in in_maze /\ c # first THEN 1 ELSE 0
        /\ pc = "done" => frontier = <<>> /\ in_maze = Cells(width, height)

\* C10: in generate_maze_prim every frontier edge has its first endpoint in
\* the maze and its second endpoint next to it in direction d; a popped edge
\* is carved only if its outside endpoint is not in the maze when popped,
\* otherwise it is discarded and grid and in_maze stay as they are; so every
\* cell but the initial one is absorbed via exactly one accepted edge.
C10_PrimFrontier ==
    /\ [](algo = "prim" => FrontierWellFormed)
    /\ []PrimAbsorbedOnce
    /\ [][PrimPopRule]_vars

\* An iteration of generate_maze_prim has popped and discarded an edge whose
\* outside endpoint was already in the maze.
C10_Witness ==
    /\ algo = "prim" /\ pc = "prim"
    /\ popped # <<>> /\ popped[2] = FALSE
    /\ <<popped[1][3], popped[1][4]>> \in in_maze

\* The bookkeeping of a walk of generate_maze_wilson: path_order ends at the
\* current cell, holds no cell twice, goes from neighbour to neighbour,
\* visited_in_walk maps exactly its cells to their (0-based) indices, and
\* path_next of every cell but the last holds the next cell of path_order and
\* the direction that leads to it.
WalkWellFormed ==
    LET n == Len(path_order) IN
    /\ n >= 1
    /\ path_order[n] = cxy
    /\ \A i, j \in 1 .. n : path_order[i] = path_order[j] => i = j
    /\ DOMAIN visited_in_walk = {path_order[i] : i \in 1 .. n}
    /\ \A i \in 1 .. n : visited_in_walk[path_order[i]] = i - 1
    /\ \A i \in 1 .. n - 1 :
         /\ path_order[i] \in DOMAIN path_next
         /\ path_next[path_order[i]][1] = path_order[i + 1]
         /\ path_next[path_order[i]][2] \in Dirs
         /\ Step(path_order[i], path_next[path_order[i]][2]) = path_order[i + 1]
         /\ path_order[i + 1] \in Cells(width, height)

\* No cell of the walk is in the maze, except possibly the one it stands on.
WalkOutsideMaze ==
    \A i \in 1 .. Len(path_order) - 1 : path_order[i] \notin in_maze

\* A walk starts as the one-cell path of its start cell, and no step of it
\* changes the first cell of path_order.
WalkKeepsStart ==
    /\ WilsonPick /\ pc' = "wil_walk" => path_order' = <<cxy'>> /\ cxy' \notin in_maze
    /\ WilsonStep => path_order'[1] = path_order[1]

\* An iteration of the carve loop opens the passage between path_order[i] and
\* path_order[i + 1], that passage only, and puts both cells in the maze.
CarvesThePath ==
    WilsonCarve =>
        LET c0 == path_order[ci + 1]
            c1 == path_order[ci + 2]
            d == path_next[c0][2]
        IN  /\ HasBit(grid'[c0], d) /\ HasBit(grid'[c1], OPPOSITE[d])
            /\ \A c \in DOMAIN grid : \A b \in Dirs :
                 HasBit(grid'[c], b) <=>
                   \/ HasBit(grid[c], b)
                   \/ c = c0 /\ b = d
                   \/ c = c1 /\ b = OPPOSITE[d]
            /\ in_maze' = in_maze \cup {c0, c1}

\* When the carve loop is over every cell of the path is in the maze and every
\* step of the path is a passage.
PathCarved ==
    (algo = "wilson" /\ pc = "wil_pick" /\ path_order # <<>>) =>
        /\ Len(path_order) >= 2
        /\ \A i \in 1 .. Len(path_order) : path_order[i] \in in_maze
        /\ \A i \in 1 .. Len(path_order) - 1 :
             Linked(grid, path_order[i], path_next[path_order[i]][2])

\* C11: in generate_maze_wilson, after every step of a walk, path_order
\* starts at the walk's start cell, ends at the current cell, holds no cell
\* twice, has grid-adjacent consecutive cells and no in-maze cell except
\* possibly the last; visited_in_walk maps exactly the cells of path_order to
\* their indices; path_next of every cell but the last leads to the next cell
\* of path_order; so the carve loop carves exactly the loop-erased path.
C11_LoopErasure ==
    /\ [](pc \in {"wil_walk", "wil_carve"} => WalkWellFormed)
    /\ [](pc = "wil_walk" \/ (pc = "wil_carve" /\ ci = 0) => WalkOutsideMaze)
    /\ [][WalkKeepsStart]_vars
    /\ [][CarvesThePath]_vars
    /\ []PathCarved

\* A walk has erased a loop and gone on: a cell it left, with its path_next
\* entry still there, is no longer in path_order, and the walk has reached
\* the maze with a path of three cells.
C11_Witness ==
    /\ pc = "wil_carve" /\ ci = 0
    /\ Len(path_order) = 3
    /\ \E c \in DOMAIN path_next : c \notin DOMAIN visited_in_walk

-----------------------------------------------------------------------------
(* Termination.  A call that can take a step takes one (the interpreter     *)
(* runs the loop): weak fairness of the next-state relation.  Nothing is    *)
(* assumed about which value a draw returns.                                *)

\* Largest number of cells of a grid whose generation is checked for
\* termination.
MaxLiveCells == 4

LiveDims == {wh \in Dims : wh[1] * wh[2] <= MaxLiveCells}

NextLive ==
    \/ \E wh \in LiveDims : DfsStart(wh[1], wh[2], None)
    \/ \E wh \in LiveDims : PrimStart(wh[1], wh[2], None)
    \/ \E wh \in LiveDims : WilsonStart(wh[1], wh[2], None)
    \/ DfsStep
    \/ PrimStep
    \/ WilsonPick
    \/ WilsonStep
    \/ WilsonCarve

SpecLive == Init /\ [][NextLive]_vars /\ WF_vars(NextLive)

\* The walk of generate_maze_wilson, standing on c, chooses the neighbour in
\* direction d.
WalkChoice(c, d) == cxy = c /\ WilsonStep /\ cxy' = Step(c, d)

\* The walk chooses direction d, wherever it stands.
WalkDirection(d) == WilsonStep /\ cxy' = Step(cxy, d)

\* The grids whose generation is checked for termination, and the neighbour
\* choices a walk has on each.
LiveGrids == {wh \in LiveDims : wh[1] >= 1 /\ wh[2] >= 1}

ChoicesOn(wh) ==
    {cd \in Cells(wh[1], wh[2]) \X Dirs : Step(cd[1], cd[2]) \in Cells(wh[1], wh[2])}

Returned == pc \in {"done", "error"}

WilsonOn(wh) == algo = "wilson" /\ width = wh[1] /\ height = wh[2]

\* Strong fairness of the step choices on a grid: a neighbour choice that is
\* enabled again and again is taken again and again.
StrongFairChoices(wh) ==
    \A cd \in ChoicesOn(wh) : SF_vars(WalkChoice(cd[1], cd[2]))

\* Weak fairness of the step choices on a grid: a neighbour choice (of a
\* cell; of a direction, whatever the cell) that stays enabled is eventually
\* taken.
WeakFairChoices(wh) ==
    /\ \A cd \in ChoicesOn(wh) : WF_vars(WalkChoice(cd[1], cd[2]))
    /\ \A d \in Dirs : WF_vars(WalkDirection(d))

\* The backtracker returns with the stack empty, every cell visited, and no
\* cell is ever pushed twice; prim returns with the frontier empty.
DfsPrimReturn ==
    /\ algo = "dfs" /\ pc \in {"dfs", "done"} =>
          /\ \A c \in DOMAIN pushes : pushes[c] = IF c \in visited THEN 1 ELSE 0
          /\ pc = "done" => stack = <<>> /\ visited = Cells(width, height)
    /\ algo = "prim" /\ pc = "done" => frontier = <<>>

\* A walk goes on until it steps onto a cell of the maze.
WalkEndsInMaze == pc = "wil_walk" /\ pc' # "wil_walk" => cxy' \in in_maze

\* C9, as amended: for width, height >= 1 the backtracker and prim return
\* whatever the random choices (the backtracker with the stack empty and every
\* cell visited and pushed exactly once, prim with the frontier empty); a walk
\* of generate_maze_wilson ends only by stepping onto an in-maze cell, and the
\* call returns under strong fairness of the neighbour choices.
C9_Termination ==
    /\ []DfsPrimReturn
    /\ [][WalkEndsInMaze]_vars
    /\ (algo \in {"dfs", "prim"}) ~> Returned
    /\ \A wh \in LiveGrids : StrongFairChoices(wh) => (WilsonOn(wh) ~> Returned)

\* C9, as claimed: the same, with generate_maze_wilson returning as soon as
\* every neighbour choice that stays enabled is eventually taken.
C9_WeakFairness ==
    /\ []DfsPrimReturn
    /\ [][WalkEndsInMaze]_vars
    /\ (algo \in {"dfs", "prim"}) ~> Returned
    /\ \A wh \in LiveGrids : WeakFairChoices(wh) => (WilsonOn(wh) ~> Returned)

\* generate_maze_wilson has returned a 2 x 2 maze grown from the cell (1, 1).
C9_Witness ==
    /\ pc = "done" /\ algo = "wilson" /\ width = 2 /\ height = 2
    /\ first = <<1, 1>>

-----------------------------------------------------------------------------
(* Two calls of a generator with the same seed, width and height.  Other   *)
(* code may use the shared random source before the first call and between  *)
(* the two: what it leaves is a source in an unknown state, whose draws are *)
(* free (every value it could hold is among them).                          *)

\* Largest number of cells of a grid generated twice.
MaxSeedCells == 4

SeedDims == {wh \in Dims : wh[1] >= 1 /\ wh[2] >= 1 /\ wh[1] * wh[2] <= MaxSeedCells}

\* The arguments of a call: any for the first, those of the first for the
\* second.
SameArgs(a, w, h, seed) == call = 0 \/ (call = 1 /\ args = <<a, w, h, seed>>)

\* Some other code draws from the shared source, or reseeds it, between
\* the calls: the source is left in a state nothing is known about.
OtherUse ==
    /\ UNCHANGED solveVars
    /\ pc = "idle"
    /\ ~others
    /\ rng' = Unseeded
    /\ others' = TRUE
    /\ UNCHANGED <<genVars, tape, histVars, call, args, grid1>>

\* return grid: the caller keeps the grid of the first call; the locals of
\* the call are gone
ReturnFirst ==
    /\ UNCHANGED solveVars
    /\ pc = "done"
    /\ call = 1
    /\ grid1' = grid
    /\ pc' = "idle" /\ algo' = "none" /\ width' = 0 /\ height' = 0
    /\ grid' = NoGrid
    /\ visited' = {} /\ stack' = <<>>
    /\ in_maze' = {} /\ frontier' = <<>>
    /\ path_order' = <<>> /\ path_next' = EmptyDict /\ visited_in_walk' = EmptyDict
    /\ cxy' = <<>> /\ ci' = 0 /\ raised' = ""
    /\ allocated' = FALSE /\ drawn' = FALSE /\ first' = <<>>
    /\ pushes' = EmptyDict /\ accepts' = EmptyDict /\ popped' = <<>>
    /\ others' = FALSE
    /\ UNCHANGED <<rngVars, call, args>>

NextSeed ==
    \/ \E wh \in SeedDims, s \in Seeds :
         SameArgs("dfs", wh[1], wh[2], s) /\ DfsStart(wh[1], wh[2], s)
    \/ \E wh \in SeedDims, s \in Seeds :
         SameArgs("prim", wh[1], wh[2], s) /\ PrimStart(wh[1], wh[2], s)
    \/ \E wh \in SeedDims, s \in Seeds :
         SameArgs("wilson", wh[1], wh[2], s) /\ WilsonStart(wh[1], wh[2], s)
    \/ DfsStep
    \/ PrimStep
    \/ WilsonPick
    \/ WilsonStep
    \/ WilsonCarve
    \/ ReturnFirst
    \/ OtherUse

SpecSeed == Init /\ [][NextSeed]_vars

\* C7: two calls of a generator with the same integer seed, width and height
\* return grids with the same mask at every coordinate, whatever was drawn
\* from the shared random source before either call.
C7_Determinism ==
    (call = 2 /\ pc = "done") => grid = grid1

\* The second of two calls generate_maze_wilson(2, 2, seed=1) has returned,
\* and other code had used the shared source between the two.
C7_Witness ==
    /\ call = 2 /\ pc = "done" /\ args = <<"wilson", 2, 2, 1>>
    /\ others

-----------------------------------------------------------------------------
(* The solvers: dijkstra_solve and dijkstra_wavefront_gif of solve_maze.py, *)
(* solve_maze_dijkstra of backup/solve_maze copy.py.                        *)

\* np.inf
Inf == -1

\* The test with <= in place of <.
LessThan_OrEqual(a, b) == b = Inf \/ a <= b

\* a < b, where b may be np.inf
LessThan(a, b) == b = Inf \/ a < b

\* Python's order of the heap entries (distance, (x, y)): tuples compare
\* item by item
EntryLess(p, q) ==
    \/ p[1] < q[1]
    \/ /\ p[1] = q[1]
       /\ \/ p[2][1] < q[2][1]
          \/ p[2][1] = q[2][1] /\ p[2][2] < q[2][2]

\* heapq.heappop(pq): the position of the least entry
HeapTop(q) == CHOOSE i \in 1 .. Len(q) : \A j \in 1 .. Len(q) : ~EntryLess(q[j], q[i])

\* heapq.heappush(pq, entry)
HeapPush(q, entry) == Append(q, entry)

\* A list index of Python: -n .. n - 1 are valid, the negative ones count
\* from the end; any other raises IndexError.
IndexOK(i, n) == -n <= i /\ i < n
PyIndex(i, n) == IF i < 0 THEN i + n ELSE i

\* grid[y][x]
GridAt(g, w, h, c) == g[<<PyIndex(c[1], w), PyIndex(c[2], h)>>]
CanRead(w, h, c) == IndexOK(c[2], h) /\ IndexOK(c[1], w)

\* 0 <= nx < w and 0 <= ny < h
InBounds(c, w, h) == 0 <= c[1] /\ c[1] < w /\ 0 <= c[2] /\ c[2] < h

\* prev.get(cur)
Get(prv, cur) == IF cur \in DOMAIN prv THEN prv[cur] ELSE NoCell

\* path = []; cur = end; while cur is not None: path.append(cur);
\* cur = prev.get(cur)
RECURSIVE Backward(_, _)
Backward(prv, cur) ==
    IF cur = NoCell THEN <<>> ELSE <<cur>> \o Backward(prv, Get(prv, cur))

\* path.reverse()
Reverse(l) == [k \in 1 .. Len(l) |-> l[Len(l) + 1 - k]]

\* The reconstruction with path.reverse() forgotten.
Reconstruct_Unreversed(prv, e) == PathOf(Backward(prv, e))

\* lines 39-46 of dijkstra_solve, 142-148 of dijkstra_wavefront_gif
Reconstruct(prv, e) == PathOf(Reverse(Backward(prv, e)))

\* lines 36-46 of solve_maze_dijkstra: None if end has no predecessor entry
ReconstructOrNone(prv, e) ==
    IF e \notin DOMAIN prv THEN NoPath ELSE PathOf(Reverse(Backward(prv, e)))

\* The body of "for d in (Dir.N, Dir.S, Dir.E, Dir.W)" of dijkstra_solve and
\* solve_maze_dijkstra, for one d: st holds dist, prev and pq
Relax(st, g, w, h, c, cd, d) ==
    LET n == Step(c, d)
        new_dist == cd + 1
    IN  IF HasBit(GridAt(g, w, h, c), d) /\ InBounds(n, w, h)
           /\ (n \notin DOMAIN st.dist \/ new_dist < st.dist[n])
        THEN [dist |-> (n :> new_dist) @@ st.dist,
              prev |-> (n :> c) @@ st.prev,
              pq |-> HeapPush(st.pq, <<new_dist, n>>),
              ad |-> st.ad]
        ELSE st

\* The same of dijkstra_wavefront_gif: the test reads all_distances
RelaxGif(st, g, w, h, c, cd, d) ==
    LET n == Step(c, d)
        new_dist == cd + 1
    IN  IF HasBit(GridAt(g, w, h, c), d) /\ InBounds(n, w, h)
           /\ LessThan(new_dist, st.ad[n])
        THEN [dist |-> st.dist,
              prev |-> (n :> c) @@ st.prev,
              pq |-> HeapPush(st.pq, <<new_dist, n>>),
              ad |-> [st.ad EXCEPT ![n] = new_dist]]
        ELSE st

\* The whole for loop, in the order N, S, E, W
RelaxAll(st, g, w, h, c, cd) ==
    Relax(Relax(Relax(Relax(st, g, w, h, c, cd, N), g, w, h, c, cd, S),
                g, w, h, c, cd, E), g, w, h, c, cd, W)

RelaxAllGif(st, g, w, h, c, cd) ==
    RelaxGif(RelaxGif(RelaxGif(RelaxGif(st, g, w, h, c, cd, N), g, w, h, c, cd, S),
                      g, w, h, c, cd, E), g, w, h, c, cd, W)

\* lines 15-19 / 13-16: h, w, dist, prev, pq, visited
SolverLocals(f, g, w, h, s, e) ==
    /\ algo' = f
    /\ grid' = g /\ width' = w /\ height' = h
    /\ start' = s /\ end' = e
    /\ dist' = (s :> 0)
    /\ prev' = (s :> NoCell)
    /\ pq' = << <<0, s>> >>
    /\ visited' = {}
    /\ reads' = {}
    /\ path' = NoPath
    /\ UNCHANGED <<stack, in_maze, frontier, path_order, path_next,
                   visited_in_walk, cxy, ci, rngVars, histVars, callVars>>

\* dijkstra_solve, lines 15-19
DijkstraSolveStart(g, w, h, s, e) ==
    /\ pc = "idle"
    /\ SolverLocals("dijkstra_solve", g, w, h, s, e)
    /\ all_distances' = EmptyDict
    /\ pc' = "solve" /\ raised' = ""

\* solve_maze_dijkstra, lines 13-16
BackupSolveStart(g, w, h, s, e) ==
    /\ pc = "idle"
    /\ SolverLocals("solve_maze_dijkstra", g, w, h, s, e)
    /\ all_distances' = EmptyDict
    /\ pc' = "solve" /\ raised' = ""

\* dijkstra_wavefront_gif, lines 56-62: all_distances[start[1], start[0]] = 0
\* raises IndexError for an index outside the array
GifSolveStart(g, w, h, s, e) ==
    /\ pc = "idle"
    /\ SolverLocals("dijkstra_wavefront_gif", g, w, h, s, e)
    /\ IF CanRead(w, h, s)
       THEN /\ all_distances' =
                  [c \in Cells(w, h) |->
                      IF c = <<PyIndex(s[1], w), PyIndex(s[2], h)>> THEN 0 ELSE Inf]
            /\ pc' = "solve" /\ raised' = ""
       ELSE /\ all_distances' = [c \in Cells(w, h) |-> Inf]
            /\ pc' = "error" /\ raised' = "IndexError"

\* What the solver steps leave alone.
SolverFrame ==
    UNCHANGED <<algo, width, height, grid, start, end, stack, in_maze, frontier,
                path_order, path_next, visited_in_walk, cxy, ci, rngVars,
                histVars, callVars>>

\* The loop "while pq:" is left (break, or pq empty): the path is rebuilt and
\* returned.
Return(p) == pc' = "done" /\ path' = p /\ raised' = ""

\* The loop goes on.
GoOn == pc' = "solve" /\ path' = path /\ raised' = raised

\* dijkstra_solve, lines 21-46: one iteration of "while pq:", and the return
\* when it was the last
DijkstraSolveStep ==
    /\ pc = "solve" /\ algo = "dijkstra_solve"
    /\ pq # <<>>
    /\ LET top == pq[HeapTop(pq)]
           rest == RemoveAt(pq, HeapTop(pq))
           c == top[2]
           st == RelaxAll([dist |-> dist, prev |-> prev, pq |-> rest, ad |-> all_distances],
                          grid, width, height, c, top[1])
       IN  IF c = end
           THEN /\ pq' = rest
                /\ Return(Reconstruct(prev, end))
                /\ UNCHANGED <<dist, prev, visited, reads, all_distances>>
           ELSE IF c \in visited
           THEN /\ pq' = rest
                /\ IF rest = <<>> THEN Return(Reconstruct(prev, end)) ELSE GoOn
                /\ UNCHANGED <<dist, prev, visited, reads, all_distances>>
           ELSE IF ~CanRead(width, height, c)
           THEN /\ pq' = rest
                /\ visited' = visited \cup {c}
                /\ reads' = reads \cup {c}
                /\ pc' = "error" /\ raised' = "IndexError" /\ path' = path
                /\ UNCHANGED <<dist, prev, all_distances>>
           ELSE /\ visited' = visited \cup {c}
                /\ reads' = reads \cup {c}
                /\ dist' = st.dist /\ prev' = st.prev /\ pq' = st.pq
                /\ IF st.pq = <<>> THEN Return(Reconstruct(st.prev, end)) ELSE GoOn
                /\ UNCHANGED all_distances
    /\ SolverFrame

\* solve_maze_dijkstra, lines 18-46
BackupSolveStep ==
    /\ pc = "solve" /\ algo = "solve_maze_dijkstra"
    /\ pq # <<>>
    /\ LET top == pq[HeapTop(pq)]
           rest == RemoveAt(pq, HeapTop(pq))
           c == top[2]
           st == RelaxAll([dist |-> dist, prev |-> prev, pq |-> rest, ad |-> all_distances],
                          grid, width, height, c, top[1])
       IN  IF c = end
           THEN /\ pq' = rest
                /\ Return(ReconstructOrNone(prev, end))
                /\ UNCHANGED <<dist, prev, reads>>
           ELSE IF top[1] > dist[c]
           THEN /\ pq' = rest
                /\ IF rest = <<>> THEN Return(ReconstructOrNone(prev, end)) ELSE GoOn
                /\ UNCHANGED <<dist, prev, reads>>
           ELSE IF ~CanRead(width, height, c)
           THEN /\ pq' = rest
                /\ reads' = reads \cup {c}
                /\ pc' = "error" /\ raised' = "IndexError" /\ path' = path
                /\ UNCHANGED <<dist, prev>>
           ELSE /\ reads' = reads \cup {c}
                /\ dist' = st.dist /\ prev' = st.prev /\ pq' = st.pq
                /\ IF st.pq = <<>> THEN Return(ReconstructOrNone(st.prev, end)) ELSE GoOn
    /\ UNCHANGED <<visited, all_distances>>
    /\ SolverFrame

\* dijkstra_wavefront_gif, lines 119-148 and 162 (the frames drawn and the
\* file written are left out)
GifSolveStep ==
    /\ pc = "solve" /\ algo = "dijkstra_wavefront_gif"
    /\ pq # <<>>
    /\ LET top == pq[HeapTop(pq)]
           rest == RemoveAt(pq, HeapTop(pq))
           c == top[2]
           at == <<PyIndex(c[1], width), PyIndex(c[2], height)>>
           ad1 == [all_distances EXCEPT ![at] = top[1]]
           st == RelaxAllGif([dist |-> dist, prev |-> prev, pq |-> rest, ad |-> ad1],
                             grid, width, height, c, top[1])
       IN  IF c \in visited
           THEN /\ pq' = rest
                /\ IF rest = <<>> THEN Return(Reconstruct(prev, end)) ELSE GoOn
                /\ UNCHANGED <<prev, visited, reads, all_distances>>
           ELSE IF ~CanRead(width, height, c)
           THEN /\ pq' = rest
                /\ visited' = visited \cup {c}
                /\ pc' = "error" /\ raised' = "IndexError" /\ path' = path
                /\ UNCHANGED <<prev, reads, all_distances>>
           ELSE IF c = end
           THEN /\ pq' = rest
                /\ visited' = visited \cup {c}
                /\ all_distances' = ad1
                /\ Return(Reconstruct(prev, end))
                /\ UNCHANGED <<prev, reads>>
           ELSE /\ visited' = visited \cup {c}
                /\ reads' = reads \cup {c}
                /\ all_distances' = st.ad /\ prev' = st.prev /\ pq' = st.pq
                /\ IF st.pq = <<>> THEN Return(Reconstruct(st.prev, end)) ELSE GoOn
    /\ UNCHANGED dist
    /\ SolverFrame

-----------------------------------------------------------------------------
(* The solvers on every grid with symmetric passages of at most             *)
(* MaxSolveCells cells, for every start and end inside the grid.            *)

MaxSolveCells == 6

SolveDims ==
    {wh \in (1 .. MaxSolveCells) \X (1 .. MaxSolveCells) : wh[1] * wh[2] <= MaxSolveCells}

\* The walls that can be opened: a cell and S or E, the neighbour inside.
Walls(w, h) == {e \in Cells(w, h) \X {S, E} : Step(e[1], e[2]) \in Cells(w, h)}

Bit(b, d) == IF b THEN d ELSE 0

\* The grid whose passages are the walls of open, each carved both ways.
GridOf(open, w, h) ==
    [c \in Cells(w, h) |->
        Bit(<<c, S>> \in open, S) + Bit(<<c, E>> \in open, E)
        + Bit(<<Step(c, N), S>> \in open, N) + Bit(<<Step(c, W), E>> \in open, W)]

SymmetricGrids(w, h) == {GridOf(open, w, h) : open \in SUBSET Walls(w, h)}

\* The arguments of a call: a grid with its start and end.
SolveInputs ==
    UNION {{[w |-> wh[1], h |-> wh[2], g |-> g, s |-> se[1], e |-> se[2]] :
               g \in SymmetricGrids(wh[1], wh[2]),
               se \in Cells(wh[1], wh[2]) \X Cells(wh[1], wh[2])} : wh \in SolveDims}

NextSolve ==
    \/ /\ pc = "idle"
       /\ \E in \in SolveInputs : DijkstraSolveStart(in.g, in.w, in.h, in.s, in.e)
    \/ /\ pc = "idle"
       /\ \E in \in SolveInputs : BackupSolveStart(in.g, in.w, in.h, in.s, in.e)
    \/ /\ pc = "idle"
       /\ \E in \in SolveInputs : GifSolveStart(in.g, in.w, in.h, in.s, in.e)
    \/ DijkstraSolveStep
    \/ BackupSolveStep
    \/ GifSolveStep

SpecSolve == Init /\ [][NextSolve]_vars

-----------------------------------------------------------------------------
(* The solvers with start and end anywhere in or around the grid. *)

MaxAnyCells == 2

AnyDims ==
    {wh \in (1 .. MaxAnyCells) \X (1 .. MaxAnyCells) : wh[1] * wh[2] <= MaxAnyCells}

\* The coordinates given: inside the grid, or one step outside it.
Around(w, h) == (-1 .. w) \X (-1 .. h)

AnyInputs ==
    UNION {{[w |-> wh[1], h |-> wh[2], g |-> g, s |-> se[1], e |-> se[2]] :
               g \in SymmetricGrids(wh[1], wh[2]),
               se \in Around(wh[1], wh[2]) \X Around(wh[1], wh[2])} : wh \in AnyDims}

NextSolveAny ==
    \/ /\ pc = "idle"
       /\ \E in \in AnyInputs : DijkstraSolveStart(in.g, in.w, in.h, in.s, in.e)
    \/ /\ pc = "idle"
       /\ \E in \in AnyInputs : BackupSolveStart(in.g, in.w, in.h, in.s, in.e)
    \/ /\ pc = "idle"
       /\ \E in \in AnyInputs : GifSolveStart(in.g, in.w, in.h, in.s, in.e)
    \/ DijkstraSolveStep
    \/ BackupSolveStep
    \/ GifSolveStep

SpecSolveAny == Init /\ [][NextSolveAny]_vars

-----------------------------------------------------------------------------
(* The solvers on every grid of at most MaxMaskCells cells whose masks are  *)
(* any values of 0 .. 15 up to the bits that point out of the grid: the     *)
(* passages need not be matched by the neighbour's opposite bit.            *)

MaxMaskCells == 4

MaskDims ==
    {wh \in (1 .. MaxMaskCells) \X (1 .. MaxMaskCells) : wh[1] * wh[2] <= MaxMaskCells}

\* The bits of the cells that point to a cell of the grid.
HalfWalls(w, h) == {e \in Cells(w, h) \X Dirs : Step(e[1], e[2]) \in Cells(w, h)}

\* The grid whose bits towards a neighbour are those of open; the bits that
\* point out of the grid are all set if border, all clear if not.
MaskOf(open, border, w, h) ==
    LET Set(c, d) ==
            IF Step(c, d) \in Cells(w, h) THEN <<c, d>> \in open ELSE border
    IN  [c \in Cells(w, h) |->
            Bit(Set(c, N), N) + Bit(Set(c, S), S) + Bit(Set(c, W), W) + Bit(Set(c, E), E)]

MaskGrids(w, h) ==
    {MaskOf(open, border, w, h) : open \in SUBSET HalfWalls(w, h), border \in BOOLEAN}

\* The arguments of a call on a w x h grid: a grid with its start and end.
MaskInputs(w, h) ==
    {[w |-> w, h |-> h, g |-> g, s |-> se[1], e |-> se[2]] :
        g \in MaskGrids(w, h), se \in Cells(w, h) \X Cells(w, h)}

NextSolveMasks ==
    \/ /\ pc = "idle"
       /\ \E wh \in MaskDims : \E in \in MaskInputs(wh[1], wh[2]) :
            DijkstraSolveStart(in.g, in.w, in.h, in.s, in.e)
    \/ /\ pc = "idle"
       /\ \E wh \in MaskDims : \E in \in MaskInputs(wh[1], wh[2]) :
            BackupSolveStart(in.g, in.w, in.h, in.s, in.e)
    \/ /\ pc = "idle"
       /\ \E wh \in MaskDims : \E in \in MaskInputs(wh[1], wh[2]) :
            GifSolveStart(in.g, in.w, in.h, in.s, in.e)
    \/ DijkstraSolveStep
    \/ BackupSolveStep
    \/ GifSolveStep

SpecSolveMasks == Init /\ [][NextSolveMasks]_vars

-----------------------------------------------------------------------------
(* Claims about the solvers *)

Solvers == {"dijkstra_solve", "solve_maze_dijkstra", "dijkstra_wavefront_gif"}

\* The least number of steps from the cells of reached to target through
\* the passages of g, k steps being made already; -1 if there is no way.
RECURSIVE StepsTo(_, _, _, _)
StepsTo(g, reached, target, k) ==
    LET more == reached \cup UNION {Adjacent(g, c) : c \in reached}
    IN  IF target \in reached THEN k
        ELSE IF more = reached THEN -1
        ELSE StepsTo(g, more, target, k + 1)

MinSteps(g, s, e) == StepsTo(g, {s}, e, 0)

\* p leads from s to e through carved passages of g.
IsPath(g, p, s, e) ==
    /\ Len(p) >= 1
    /\ p[1] = s
    /\ p[Len(p)] = e
    /\ \A k \in 1 .. Len(p) - 1 :
         \E d \in Dirs : p[k + 1] = Step(p[k], d) /\ Linked(g, p[k], d)

\* C3: on a grid with symmetric passages, for start and end inside the grid
\* and end reachable from start, the solver returns a list of cells that
\* begins with start, ends with end, joins consecutive cells by carved
\* passages and has the least possible number of steps ([start], of length
\* 0, when start = end).
C3_ShortestPath ==
    (/\ pc = "done" /\ algo \in Solvers
     /\ Symmetric(grid)
     /\ InBounds(start, width, height) /\ InBounds(end, width, height)
     /\ MinSteps(grid, start, end) >= 0) =>
        /\ ~path.none
        /\ IsPath(grid, path.cells, start, end)
        /\ Len(path.cells) - 1 = MinSteps(grid, start, end)
        /\ start = end => path.cells = <<start>>

\* dijkstra_solve has returned a path of three steps between opposite corners
\* of the 3 x 2 grid with every wall open.
C3_Witness ==
    /\ pc = "done" /\ algo = "dijkstra_solve"
    /\ width = 3 /\ height = 2
    /\ Cardinality(EdgeSet(grid)) = 7
    /\ start = <<0, 0>> /\ end = <<2, 1>>
    /\ Len(path.cells) = 4

\* C4: when the queue is exhausted without end being reached (end is not
\* reachable from start, start # end), the solver returns the "no path"
\* result, not a list of cells, and raises nothing.
C4_NoPathResult ==
    (/\ pc \in {"done", "error"} /\ algo \in Solvers
     /\ InBounds(start, width, height) /\ InBounds(end, width, height)
     /\ start # end
     /\ MinSteps(grid, start, end) < 0) =>
        /\ pc = "done"
        /\ raised = ""
        /\ path = NoPath

\* C5: with start or end outside the grid the solver fails with
\* InvalidCoordinate, having read no cell of the grid, searched nothing and
\* returned no path.
C5_InvalidCoordinate ==
    (/\ pc \in {"done", "error"} /\ algo \in Solvers
     /\ ~(InBounds(start, width, height) /\ InBounds(end, width, height))) =>
        /\ pc = "error"
        /\ raised = "InvalidCoordinate"
        /\ reads = {}
        /\ visited = {}
        /\ path = NoPath

\* A distance is recorded for cell c, and which: dist of dijkstra_solve and
\* solve_maze_dijkstra, all_distances of dijkstra_wavefront_gif.
Recorded(c) ==
    IF algo = "dijkstra_wavefront_gif"
    THEN c \in DOMAIN all_distances /\ all_distances[c] # Inf
    ELSE c \in DOMAIN dist

RecordedDistance(c) ==
    IF algo = "dijkstra_wavefront_gif" THEN all_distances[c] ELSE dist[c]

\* An iteration of the loop of a solver.
SolveStep == DijkstraSolveStep \/ BackupSolveStep \/ GifSolveStep

\* The entry an iteration pops is not above any entry left or pushed, so the
\* next pop is not below it.
PopsInOrder ==
    SolveStep => \A i \in 1 .. Len(pq') : pq[HeapTop(pq)][1] <= pq'[i][1]

\* No iteration changes a recorded distance or a recorded predecessor.
RecordsFinal ==
    SolveStep =>
        /\ \A c \in DOMAIN dist : c \in DOMAIN dist' /\ dist'[c] = dist[c]
        /\ \A c \in DOMAIN all_distances :
             all_distances[c] # Inf => all_distances'[c] = all_distances[c]
        /\ \A c \in DOMAIN prev : c \in DOMAIN prev' /\ prev'[c] = prev[c]

\* The entries an iteration pushes (pq' is pq without the popped entry, the
\* pushed ones appended) are of different cells, none with a distance
\* recorded before: no cell is pushed a second time.
PushesOnce ==
    SolveStep =>
        /\ Len(pq') >= Len(pq) - 1
        /\ \A i \in Len(pq) .. Len(pq') :
             /\ ~Recorded(pq'[i][2])
             /\ \A j \in Len(pq) .. Len(pq') : pq'[i][2] = pq'[j][2] => i = j

\* The queue holds each cell at most once, with its recorded distance, never
\* more entries than the grid has cells, and no entry the skip would drop: no
\* cell of visited (dijkstra_solve, dijkstra_wavefront_gif), no distance above
\* the recorded one (solve_maze_dijkstra).
QueueFresh ==
    (algo \in Solvers /\ pc = "solve") =>
        /\ Len(pq) <= width * height
        /\ \A i \in 1 .. Len(pq) :
             /\ Recorded(pq[i][2])
             /\ pq[i][1] = RecordedDistance(pq[i][2])
             /\ pq[i][2] \notin visited
             /\ \A j \in 1 .. Len(pq) : pq[i][2] = pq[j][2] => i = j

\* C12: in the three solvers, on any grid (passages matched or not, cycles
\* or not), entries are popped in non-decreasing distance order and a recorded
\* distance is never lowered; so no cell is pushed more than once, the queue
\* never holds more entries than the grid has cells, the skip of stale or
\* settled entries never fires, and a predecessor is final once written.
C12_PushedOnce ==
    /\ [][PopsInOrder]_vars
    /\ [][RecordsFinal]_vars
    /\ [][PushesOnce]_vars
    /\ []QueueFresh

\* dijkstra_solve on a 2 x 2 grid whose passages form a cycle, not matched at
\* the end cell: the end was reached from (0, 1), then seen again from (1, 0)
\* at the same distance and not pushed again.
C12_Witness ==
    /\ algo = "dijkstra_solve" /\ pc = "done"
    /\ width = 2 /\ height = 2
    /\ start = <<0, 0>> /\ end = <<1, 1>>
    /\ visited = {<<0, 0>>, <<0, 1>>, <<1, 0>>}
    /\ HasBit(grid[<<1, 0>>], S) /\ grid[<<1, 1>>] = 0
    /\ prev[<<1, 1>>] = <<0, 1>>
    /\ path.cells = << <<0, 0>>, <<0, 1>>, <<1, 1>> >>

=============================================================================
